---- MODULE Spec2Model ----
(***************************************************************************)
(* Model of the wallpaper daemon (src/src/config.rs, lib.rs, main.rs,      *)
(* ipc.rs): the persisted Config/Cache state, its file formats and its     *)
(* reconciliation (State::reload, State::force_reload), the tiered image   *)
(* selection pass (update_wallpapers), the daemon loop with its event      *)
(* handlers, and the control channel.                                      *)
(*                                                                         *)
(* Time is counted in ticks of five minutes.  A fingerprint (DefaultHasher *)
(* over the hashed fields) is modelled by the hashed fields themselves,    *)
(* i.e. without collisions.  Writing a file is modelled as succeeding;     *)
(* a file that cannot be opened or parsed is the file state "corrupt".     *)
(***************************************************************************)
EXTENDS Integers, Sequences, FiniteSets, TLC

VARIABLES
    config,                  \* State.config
    cache,                   \* State.cache
    last_loaded_cache_hash,  \* State.last_loaded_cache_hash
    last_loaded_config_hash, \* State.last_loaded_config_hash
    cache_file,              \* <cache dir>/cache.json
    config_file,             \* <config dir>/config.json
    files,                   \* the image paths that are files on disk
    connected_monitors,      \* what `swww query` reports
    clock,                   \* the system time, in ticks since the epoch
    pc,                      \* position of the program
    ret,                     \* where the running update_wallpapers returns to
    monitors,                \* update_wallpapers: the monitors still to process
    last_images,             \* update_wallpapers: local `last_images` (lib.rs:97)
    queue,                   \* the mpsc channel behind Listener
    current_time,            \* daemon: local `current_time` (main.rs:209)
    deadline,                \* daemon: when the running recv_timeout gives up
    sent,                    \* the number of events clients have sent so far
    err,                     \* result of the last handler call ("" is Ok)
    op,                      \* history: the last handler call
    before,                  \* history: State when the last handler call began
    disk0,                   \* history: the files as the last handler call found them
    note,                    \* history: how the last call follows the one before
    arg,                     \* history: the arguments of the last handler call
    picks,                   \* history: what the running/last pass chose per monitor
    site,                    \* history: where in the daemon loop the last call ran
    cycle,                   \* history: what the running/last daemon cycle has done
    stamps,                  \* history: for each message of the queue, its arrival
    enqueued,                \* history: the number of messages put on the queue
    last_handled,            \* history: the arrival of the message received last
    listener,                \* the daemon's ipc::Listener
    socket_file,             \* whether the socket path exists
    conns,                   \* the connections to the socket, both ends
    drops                    \* history: how often a Listener was dropped

vars == <<config, cache, last_loaded_cache_hash, last_loaded_config_hash,
          cache_file, config_file, files, connected_monitors, clock, pc, ret,
          monitors, last_images, queue, current_time, deadline, sent, err, op,
          before, disk0, note, arg, picks, site, cycle, stamps, enqueued,
          last_handled, listener, socket_file, conns, drops>>

state_vars == <<config, cache, last_loaded_cache_hash, last_loaded_config_hash>>
disk_vars == <<cache_file, config_file>>
env_vars == <<files, connected_monitors, clock>>
pass_vars == <<ret, monitors, last_images, picks>>
hist_vars == <<op, before, disk0, note, arg>>
arrival_vars == <<stamps, enqueued, last_handled>>
ipc_vars == <<listener, socket_file, conns, drops>>
daemon_vars == <<queue, current_time, deadline, site, sent, cycle, arrival_vars,
                 ipc_vars>>

----------------------------------------------------------------------------
(* Values *)

MonitorNames == {"DP-1", "HDMI-1"}

\* config.rs:62
CACHE_VERSION == 0

\* Time is counted in ticks of five minutes.  The number of ticks in a day:
\* NaiveTime ranges over one day (config.rs:374-378).
DayTicks == 24 * 12

\* ValidTime::MIN / ValidTime::MAX / ValidTime::ALL (config.rs:374-383).
\* A time of day is a tick 0 .. DayTicks-1 or one of the two leap-second
\* instants that follow the last tick: LEAP is 23:59:59 plus 1.0 s (what the
\* text "23:59:60" parses to), MAX is 23:59:59 plus 1.999999999 s.
MIN == 0
LEAP == DayTicks
MAX == DayTicks + 1
ALL == [start |-> MIN, end |-> MAX]

\* ValidTime::to_s (config.rs:364-372) followed by from_s (config.rs:409-431):
\* a time with a non-zero second is written as %H:%M:%S, which prints both
\* leap-second instants as "23:59:60"; that text parses to LEAP.
reparsed_time(t) == IF t = MAX THEN LEAP ELSE t

\* Serialize for ValidTime (config.rs:386-400), then Deserialize
\* (config.rs:402-449), of a "start-end" window.
reparsed_window(w) ==
    [start |-> reparsed_time(w.start), end |-> reparsed_time(w.end)]

\* serde_json::to_writer of a Config, then from_reader (config.rs:181, 190).
reparsed_config(c) ==
    [c EXCEPT !.images =
        [p \in DOMAIN c.images |->
            [i \in DOMAIN c.images[p] |-> reparsed_window(c.images[p][i])]]]

\* ValidTime::matches (config.rs:348-350): start <= time <= end.
matches(self, time) == self.start <= time /\ time <= self.end

\* Monitors (config.rs:16-20): All, or Some(list).
MonitorsAll == [all |-> TRUE, list |-> <<>>]
MonitorsSome(list) == [all |-> FALSE, list |-> list]

includes_unfiltered(self, monitor) == TRUE

\* Monitors::includes (config.rs:23-28).
includes(self, monitor) ==
    self.all \/ \E i \in DOMAIN self.list : self.list[i] = monitor

EmptyMap == [x \in {} |-> ""]

\* BTreeMap::insert
insert(map, k, v) ==
    [x \in DOMAIN map \cup {k} |-> IF x = k THEN v ELSE map[x]]

\* Config::default (config.rs:48-60); 60*5 s is 1 tick, 60*60 s is 12 ticks.
DefaultCheckInterval == 1
DefaultUpdateInterval == 12
DefaultFps == 30
DefaultConfig ==
    [check_interval |-> DefaultCheckInterval,
     update_interval |-> DefaultUpdateInterval,
     transitions |-> <<>>,
     images |-> EmptyMap,
     image_dir |-> "",
     fps |-> DefaultFps,
     monitors |-> MonitorsAll]

\* Cache::default (config.rs:84-93); UNIX_EPOCH is tick 0.
DefaultCache ==
    [version |-> CACHE_VERSION,
     last_update |-> 0,
     last_transitions |-> EmptyMap,
     last_images |-> EmptyMap]

\* A file on disk: absent, unreadable/unparsable, or holding a value.
Absent(dflt) == [kind |-> "absent", val |-> dflt]
Corrupt(dflt) == [kind |-> "corrupt", val |-> dflt]
Holding(v) == [kind |-> "ok", val |-> v]

----------------------------------------------------------------------------
(* State: fingerprints, load and reconcile (config.rs:105-279) *)

\* State::hash_cache (config.rs:129-141): version and last_update are left out.
hash_cache(c) == <<c.last_transitions, c.last_images>>

\* State::hash_config (config.rs:143-147): every field of Config.
hash_config(c) == c

\* The program state as one record, with the two files as a call finds them.
Snapshot(cf, gf) ==
    [config |-> config, cache |-> cache,
     hc |-> last_loaded_cache_hash, hf |-> last_loaded_config_hash,
     cache_file |-> cf, config_file |-> gf, err |-> ""]

\* State::save (config.rs:269-278): the in-memory cache is written out.
save(s) == [s EXCEPT !.cache_file = Holding(s.cache)]

\* State::reload_cache (config.rs:149-169): Some(cache), None after writing
\* the in-memory cache to the missing file, or an error.
reload_cache(s) ==
    CASE s.cache_file.kind = "ok" ->
           [res |-> "some", val |-> s.cache_file.val, s |-> s]
      [] s.cache_file.kind = "absent" ->
           [res |-> "none", val |-> DefaultCache, s |-> save(s)]
      [] OTHER ->
           [res |-> "err", val |-> DefaultCache,
            s |-> [s EXCEPT !.err = "while parsing cache file"]]

\* State::reload_config (config.rs:171-194): Some(config), None after writing
\* the in-memory config to the missing file, or an error.
reload_config(s) ==
    CASE s.config_file.kind = "ok" ->
           [res |-> "some", val |-> s.config_file.val, s |-> s]
      [] s.config_file.kind = "absent" ->
           [res |-> "none", val |-> DefaultConfig,
            s |-> [s EXCEPT !.config_file = Holding(reparsed_config(s.config))]]
      [] OTHER ->
           [res |-> "err", val |-> DefaultConfig,
            s |-> [s EXCEPT !.err = "while parsing config file"]]

merge_replacing(mem, loaded, selector) == loaded

\* The two merge loops (config.rs:206-215 and 242-251): an entry of the loaded
\* map is inserted when the in-memory selector includes its monitor.
merge(mem, loaded, selector) ==
    [m \in DOMAIN mem \cup {x \in DOMAIN loaded : includes(selector, x)} |->
        IF m \in DOMAIN loaded /\ includes(selector, m) THEN loaded[m] ELSE mem[m]]

\* config.rs:204-216 / 241-253: the merge of a loaded cache of the right version.
merge_cache(s, loaded) ==
    [s EXCEPT
        !.cache.last_images =
            merge(s.cache.last_images, loaded.last_images, s.config.monitors),
        !.cache.last_transitions =
            merge(s.cache.last_transitions, loaded.last_transitions,
                  s.config.monitors),
        !.cache.last_update = loaded.last_update]

version_gate_open(loaded) == TRUE

\* config.rs:199 / 236: the version gate.
version_gate(loaded) == loaded.version = CACHE_VERSION

\* config.rs:198-218: the cache half of force_reload.
force_reload_cache(s) ==
    LET rc == reload_cache(s) IN
    IF rc.res # "some" THEN rc.s
    ELSE IF ~version_gate(rc.val) THEN rc.s
    ELSE merge_cache([rc.s EXCEPT !.hc = hash_cache(rc.val)], rc.val)

force_reload_config_fingerprinted(s) ==
    LET rf == reload_config(s) IN
    IF rf.res # "some" \/ hash_config(rf.val) = s.hf THEN rf.s
    ELSE [rf.s EXCEPT !.hf = hash_config(rf.val), !.config = rf.val]

\* config.rs:220-225: the config half of force_reload.
force_reload_config(s) ==
    LET rf == reload_config(s) IN
    IF rf.res # "some" THEN rf.s
    ELSE [rf.s EXCEPT !.hf = hash_config(rf.val), !.config = rf.val]

\* State::force_reload (config.rs:196-226).
force_reload(s) ==
    LET s1 == force_reload_cache(s) IN
    IF s1.err # "" THEN s1 ELSE force_reload_config(s1)

\* config.rs:256-266: the config half of reload.
reload_config_half(s) ==
    LET rf == reload_config(s) IN
    IF rf.res # "some" THEN rf.s
    ELSE IF hash_config(rf.val) = s.hf THEN rf.s
    ELSE [rf.s EXCEPT !.hf = hash_config(rf.val), !.config = rf.val]

cache_unchanged_never(s, loaded) == FALSE

\* config.rs:230: the fingerprint short-circuit of the cache.
cache_unchanged(s, loaded) == hash_cache(loaded) = s.hc

\* State::reload (config.rs:228-267).  An unchanged cache returns Ok(()) from
\* the whole function (line 232): the config file is not looked at.
reload(s) ==
    LET rc == reload_cache(s) IN
    IF rc.res = "err" THEN rc.s
    ELSE IF rc.res = "some" /\ cache_unchanged(s, rc.val) THEN rc.s
    ELSE LET s1 == IF rc.res = "none" THEN rc.s
                   ELSE IF ~version_gate(rc.val)
                        THEN [rc.s EXCEPT !.hc = hash_cache(rc.val)]
                        ELSE merge_cache([rc.s EXCEPT !.hc = hash_cache(rc.val)],
                                         rc.val)
         IN reload_config_half(s1)

\* State::load (config.rs:111-127): the defaults, then reload.
load(cf, gf) ==
    reload([config |-> DefaultConfig, cache |-> DefaultCache,
            hc |-> hash_cache(DefaultCache), hf |-> hash_config(DefaultConfig),
            cache_file |-> cf, config_file |-> gf, err |-> ""])

\* The variables take the values of a result record.
Install(s) ==
    /\ config' = s.config
    /\ cache' = s.cache
    /\ last_loaded_cache_hash' = s.hc
    /\ last_loaded_config_hash' = s.hf
    /\ cache_file' = s.cache_file
    /\ config_file' = s.config_file
    /\ err' = s.err

\* History of a handler call that found the files cf and gf.
Record(name, cf, gf) ==
    /\ op' = name
    /\ before' = [config |-> config, cache |-> cache,
                  hc |-> last_loaded_cache_hash, hf |-> last_loaded_config_hash]
    /\ disk0' = <<cf, gf>>
    /\ note' = IF name = "reload" /\ op = "reload" /\ disk0 = <<cf, gf>>
               THEN (IF before.cache # cache \/ before.config # config
                     THEN "repeat_after_change" ELSE "repeat")
               ELSE "first"

----------------------------------------------------------------------------
(* Selection pass: update_wallpapers (lib.rs:52-192) *)

\* Option::None of an image path.
None == "<none>"

\* lib.rs:140: the fallback image.
DefaultImage == "/usr/share/backgrounds/sway/Sway_Wallpaper_Blue_1920x1080.png"

\* Two image files of the model.
ImageA == "/pics/a.png"
ImageB == "/pics/b.png"

\* PathBuf::join on the directories and identifiers of the model: an absolute
\* identifier replaces the directory, an empty directory leaves the identifier.
JoinTable ==
    { <<"/pics", "a.png", "/pics/a.png">>,
      <<"/pics", "b.png", "/pics/b.png">> }
join(dir, path) ==
    IF \E e \in JoinTable : e[1] = dir /\ e[2] = path
    THEN (CHOOSE e \in JoinTable : e[1] = dir /\ e[2] = path)[3]
    ELSE path

\* Local time of day of a system time.
time_of_day(t) == t % DayTicks

\* lib.rs:102-113: the closure valid_images.
valid_images(cfg, now) ==
    { join(cfg.image_dir, path) :
        path \in { p \in DOMAIN cfg.images :
                     \E i \in DOMAIN cfg.images[p] : matches(cfg.images[p][i], now) } }

\* lib.rs:128-133: every configured image.
all_images(cfg) == { join(cfg.image_dir, path) : path \in DOMAIN cfg.images }

get_image_no_retry(images, fs) ==
    IF images = {} THEN {None}
    ELSE { IF image \in fs THEN image ELSE None : image \in images }

\* lib.rs:53-66: the closure get_image.  Draw a candidate, remove it, return
\* it when it is a file, else draw again; None when the set is used up.
\* The result is the set of values the random draws can produce.
RECURSIVE get_image(_, _)
get_image(images, fs) ==
    IF images = {} THEN {None}
    ELSE UNION { IF image \in fs THEN {image}
                 ELSE get_image(images \ {image}, fs) : image \in images }

tier1_with_shown(cfg, shown, now) == valid_images(cfg, now)

\* lib.rs:116-118: valid images which were not used before.
tier1(cfg, shown, now) == valid_images(cfg, now) \ shown

\* Option::or_else on sets of possible results tagged with their tier.
or_else(first, second) ==
    { r \in first : r.image # None } \cup
    (IF \E r \in first : r.image = None THEN second ELSE {})

tagged(results, n) == { [image |-> image, tier |-> n] : image \in results }

select_image_all_first(cfg, shown, now, fs) ==
    or_else(tagged(get_image(tier1(cfg, shown, now), fs), 1),
    or_else(tagged(get_image(all_images(cfg), fs), 3),
    or_else(tagged(get_image(valid_images(cfg, now), fs), 2),
            tagged(IF DefaultImage \in fs THEN {DefaultImage} ELSE {None}, 4))))

select_image_unchecked_default(cfg, shown, now, fs) ==
    or_else(tagged(get_image(tier1(cfg, shown, now), fs), 1),
    or_else(tagged(get_image(valid_images(cfg, now), fs), 2),
    or_else(tagged(get_image(all_images(cfg), fs), 3),
            tagged({DefaultImage}, 4))))

\* lib.rs:114-146: the four tiers in order.
select_image(cfg, shown, now, fs) ==
    or_else(tagged(get_image(tier1(cfg, shown, now), fs), 1),
    or_else(tagged(get_image(valid_images(cfg, now), fs), 2),
    or_else(tagged(get_image(all_images(cfg), fs), 3),
            tagged(IF DefaultImage \in fs THEN {DefaultImage} ELSE {None}, 4))))

\* lib.rs:150-155: a random transition, "simple" when there is none.
select_transition(cfg) ==
    IF cfg.transitions = <<>> THEN {"simple"}
    ELSE { cfg.transitions[i] : i \in DOMAIN cfg.transitions }

presenter_always(image, last_image) == TRUE

\* lib.rs:158: the presenter is invoked when the image differs from the
\* monitor's cached one.
presenter_invoked(image, last_image) == image # last_image

update_keeping_stamp(c, monitor, image, transition, now) ==
    [c EXCEPT !.last_images = insert(c.last_images, monitor, image),
              !.last_transitions = insert(c.last_transitions, monitor, transition)]

\* Cache::update (config.rs:77-81).
update(c, monitor, image, transition, now) ==
    [c EXCEPT !.last_update = now,
              !.last_images = insert(c.last_images, monitor, image),
              !.last_transitions = insert(c.last_transitions, monitor, transition)]

target_monitors_unfiltered(requested, connected) ==
    IF requested.all THEN connected
    ELSE { requested.list[i] : i \in DOMAIN requested.list }

\* lib.rs:68-81: the monitors of the pass.
target_monitors(requested, connected) ==
    IF requested.all THEN connected
    ELSE { requested.list[i] : i \in DOMAIN requested.list } \cap connected

\* A loop that leaves on the error of any call, event handlers included.
exit_on_any_error(r, e) ==
    IF e # "" /\ r \in {"sleep", "wake", "drain"} THEN "exited"
    ELSE r

\* A loop that starts its next cycle at once when an event handler fails.
next_cycle_on_event_error(r, e) ==
    IF e # "" /\ r \in {"sleep", "wake"} THEN "exited"
    ELSE IF e # "" /\ r = "drain" THEN "wake"
    ELSE r

\* Where a call that began at `r` continues: an error of the scheduled pass or
\* of the end-of-cycle reload leaves the daemon loop (main.rs:224, 268), an
\* error of an event handler is logged (main.rs:233-251).
continue_at(r, e) ==
    IF e # "" /\ r \in {"sleep", "wake"} THEN "exited"
    ELSE r

\* lib.rs:52-97: update_wallpapers up to the loop over the monitors.
update_wallpapers(requested, r) ==
    LET targets == target_monitors(requested, connected_monitors) IN
    /\ picks' = EmptyMap
    /\ IF targets = {}
       THEN /\ err' = IF connected_monitors = {} THEN "no monitors connected"
                      ELSE "no valid monitor available"
            /\ pc' = continue_at(r, err')
            /\ UNCHANGED <<ret, monitors, last_images>>
       ELSE /\ err' = ""
            /\ pc' = "pass"
            /\ ret' = r
            /\ monitors' = targets
            /\ last_images' = { cache.last_images[m] : m \in DOMAIN cache.last_images }

\* The directories of the model and the files each may hold.
DirectoryTable == { <<"/pics", ImageA>>, <<"/pics", ImageB>> }

\* main.rs:162-177: get_images_rec.  A file gives one entry, a directory the
\* entries of the files below it, anything else the error of read_dir.
get_images_rec(path, fs) ==
    IF path \in fs
    THEN [err |-> "", images |-> [q \in {path} |-> <<ALL>>]]
    ELSE IF \E e \in DirectoryTable : e[1] = path
    THEN [err |-> "",
          images |-> [q \in { e[2] : e \in { d \in DirectoryTable :
                                              d[1] = path /\ d[2] \in fs } }
                        |-> <<ALL>>]]
    ELSE [err |-> "reading image directory", images |-> EmptyMap]

extend_keeping(map, new) ==
    [q \in DOMAIN map \cup DOMAIN new |-> IF q \in DOMAIN map THEN map[q] ELSE new[q]]

\* BTreeMap::extend (main.rs:188).
extend(map, new) ==
    [q \in DOMAIN map \cup DOMAIN new |-> IF q \in DOMAIN new THEN new[q] ELSE map[q]]

\* main.rs:161-196: select.  An error of get_images_rec returns before the
\* image map is touched; the map is assigned before update_wallpapers runs.
select(path, keep_old, r) ==
    LET found == get_images_rec(path, files) IN
    IF found.err # ""
    THEN /\ err' = found.err
         /\ pc' = continue_at(r, err')
         /\ UNCHANGED <<config, pass_vars>>
    ELSE /\ config' = [config EXCEPT !.images =
                         IF keep_old THEN extend(config.images, found.images)
                         ELSE found.images]
         /\ update_wallpapers(MonitorsAll, r)

on_exit_status_fatal(status) ==
    IF status # 0 THEN "swww returned error" ELSE ""

\* lib.rs:175-182: an exit status of the presenter other than success is
\* logged; it is no error of the pass.
on_exit_status(status) == ""

\* lib.rs:98-189: one turn of the loop, for one of the remaining monitors.
\* The presenter, when invoked, exits with status 0 or with another status.
PassStep ==
    /\ pc = "pass"
    /\ \E monitor \in monitors :
        LET last_image == IF monitor \in DOMAIN cache.last_images
                          THEN cache.last_images[monitor] ELSE None
            now == time_of_day(clock)
        IN \E pick \in select_image(config, last_images, now, files) :
            IF pick.image = None
            THEN /\ err' = "no valid image found"
                 /\ pc' = continue_at(ret, err')
                 /\ UNCHANGED <<cache, cache_file, monitors, picks>>
            ELSE \E transition \in select_transition(config) :
                 \E status \in IF presenter_invoked(pick.image, last_image)
                               THEN {0, 1} ELSE {0} :
                 /\ picks' = insert(picks, monitor,
                        [image |-> pick.image, tier |-> pick.tier,
                         transition |-> transition, now |-> now, at |-> clock,
                         last_image |-> last_image,
                         invoked |-> presenter_invoked(pick.image, last_image),
                         status |-> status,
                         n |-> Cardinality(DOMAIN picks) + 1])
                 /\ err' = on_exit_status(status)
                 /\ IF err' # ""
                    THEN /\ pc' = continue_at(ret, err')
                         /\ UNCHANGED <<cache, cache_file, monitors>>
                    ELSE /\ cache' = update(cache, monitor, pick.image,
                                            transition, clock)
                         /\ cache_file' = Holding(cache')
                         /\ monitors' = monitors \ {monitor}
                         /\ pc' = IF monitors' = {} THEN continue_at(ret, "")
                                  ELSE "pass"
    /\ UNCHANGED <<config, last_loaded_cache_hash, last_loaded_config_hash,
                   config_file, files, connected_monitors, clock, ret,
                   last_images, daemon_vars, hist_vars>>

----------------------------------------------------------------------------
(* Inputs of the model *)

\* A last_transitions map that goes with a last_images map.
TransitionsOf(images) ==
    [m \in DOMAIN images |-> IF images[m] = ImageA THEN "fade" ELSE "wipe"]

\* Scenario A/B of the specification: a.png from 9 to 17, b.png all day.
ConfigAB ==
    [DefaultConfig EXCEPT
        !.update_interval = 2,
        !.transitions = <<"fade">>,
        !.images = [p \in {"a.png", "b.png"} |->
                      IF p = "a.png" THEN <<[start |-> 108, end |-> 204]>>
                      ELSE <<ALL>>],
        !.image_dir = "/pics"]

\* The same, for the monitor DP-1 only.
ConfigDP == [ConfigAB EXCEPT !.monitors = MonitorsSome(<<"DP-1">>)]

\* Only a.png, from 9 to 17, and two transitions.
ConfigA ==
    [DefaultConfig EXCEPT
        !.update_interval = 2,
        !.transitions = <<"fade", "wipe">>,
        !.images = [p \in {"a.png"} |-> <<[start |-> 108, end |-> 204]>>],
        !.image_dir = "/pics"]

\* The last_images maps of the cache files: none, both monitors with the
\* same image, and DP-1 alone.
CacheMaps ==
    { EmptyMap,
      [m \in MonitorNames |-> ImageA],
      [m \in MonitorNames |-> ImageB],
      [m \in {"DP-1"} |-> ImageB] }

FileStamps == {120, 240}

CacheOf(version, t, images) ==
    [version |-> version, last_update |-> t, last_images |-> images,
     last_transitions |-> TransitionsOf(images)]

ReloadCacheFiles ==
    { Holding(CacheOf(CACHE_VERSION, t, im)) : t \in FileStamps, im \in CacheMaps }
    \cup { Holding(CacheOf(CACHE_VERSION + 1, 240, [m \in MonitorNames |-> ImageB])) }
    \cup { Absent(DefaultCache), Corrupt(DefaultCache) }

ReloadConfigFiles ==
    {Holding(ConfigAB), Holding(ConfigDP),
     Absent(DefaultConfig), Corrupt(DefaultConfig)}

\* History: the arrival of a message on the queue: its serial number, the
\* connection that forwarded it (0: none), where the daemon loop stood at that
\* moment, and the number of end-of-cycle reconciles it has stayed queued over.
NoArrival == [n |-> 0, conn |-> 0, at |-> "none", across |-> 0]
Phase ==
    IF pc = "reload" THEN "reload"
    ELSE IF pc = "drain" \/ (pc = "pass" /\ ret = "drain") THEN "drain"
    ELSE "await"
Arrival(c) == [n |-> enqueued + 1, conn |-> c, at |-> Phase, across |-> 0]

\* The connections of the model (ipc.rs:57: listener.incoming()).
MaxConns == 2
Conns == 1..MaxConns

\* A connection nobody has opened: no client (ipc.rs:129-133), no handler
\* thread (ipc.rs:61), nothing in the client's channel or in the stream.
\* `wrote` is what became of the write_all of the event last sent ("lost":
\* it failed and Client::send has returned), `stop` the queue counters when
\* the handler ended on a line that did not decode.
NoConn ==
    [client |-> "none", chan |-> <<>>, fins |-> 0, stream |-> <<>>,
     handler |-> "none", wrote |-> "none",
     stop |-> [enq |-> 0, taken |-> 0]]

\* The arguments of a handler call: the Monitors of update_wallpapers
\* (lib.rs:52), path and keep_old of select (main.rs:161), and the files that
\* existed when it was called.
Args(requested, path, keep_old) ==
    [monitors |-> requested, path |-> path, keep_old |-> keep_old,
     files |-> files]
NoArg ==
    [monitors |-> MonitorsAll, path |-> "", keep_old |-> FALSE, files |-> {}]

\* The history of a daemon cycle in which nothing has happened yet.
NoCycle ==
    [due |-> FALSE, scheduled |-> 0, handled |-> 0, failed |-> FALSE,
     reconciles |-> 0]

\* The state of `main` before State::load, with the files as they may be found.
InitWith(cache_files, config_files, file_sets, monitor_sets, instants) ==
    /\ config = DefaultConfig
    /\ cache = DefaultCache
    /\ last_loaded_cache_hash = hash_cache(DefaultCache)
    /\ last_loaded_config_hash = hash_config(DefaultConfig)
    /\ cache_file \in cache_files
    /\ config_file \in config_files
    /\ files \in file_sets
    /\ connected_monitors \in monitor_sets
    /\ clock \in instants
    /\ pc = "start"
    /\ ret = "idle"
    /\ monitors = {}
    /\ last_images = {}
    /\ queue = <<>>
    /\ current_time = 0
    /\ deadline = 0
    /\ sent = 0
    /\ err = ""
    /\ op = "none"
    /\ before = [config |-> DefaultConfig, cache |-> DefaultCache,
                 hc |-> hash_cache(DefaultCache),
                 hf |-> hash_config(DefaultConfig)]
    /\ disk0 = <<cache_file, config_file>>
    /\ note = "first"
    /\ arg = NoArg
    /\ picks = EmptyMap
    /\ site = "none"
    /\ cycle = NoCycle
    /\ stamps = <<>>
    /\ enqueued = 0
    /\ last_handled = NoArrival
    /\ listener = "unbound"
    /\ socket_file = FALSE
    /\ conns = [c \in Conns |-> NoConn]
    /\ drops = 0

----------------------------------------------------------------------------
(* The library driven call by call: State::load, then reload and            *)
(* force_reload in any order.  Between two calls the two files may be       *)
(* edited from outside: a call finds each file as the last call left it or  *)
(* with any of the contents of ReloadCacheFiles / ReloadConfigFiles.        *)

\* main.rs:285: State::load; an error ends `main`.
Load(next) ==
    /\ pc = "start"
    /\ Install(load(cache_file, config_file))
    /\ Record("load", cache_file, config_file)
    /\ arg' = NoArg
    /\ pc' = IF err' = "" THEN next ELSE "exited"
    /\ UNCHANGED <<env_vars, pass_vars, daemon_vars>>

LoadState == Load("idle")

\* A call of State::reload.
ApiReload ==
    /\ pc = "idle"
    /\ \E cf \in ReloadCacheFiles \cup {cache_file},
          gf \in ReloadConfigFiles \cup {config_file} :
        /\ Install(reload(Snapshot(cf, gf)))
        /\ Record("reload", cf, gf)
        /\ arg' = NoArg
    /\ UNCHANGED <<pc, env_vars, pass_vars, daemon_vars>>

\* A call of State::force_reload.
ApiForceReload ==
    /\ pc = "idle"
    /\ \E cf \in ReloadCacheFiles \cup {cache_file},
          gf \in ReloadConfigFiles \cup {config_file} :
        /\ Install(force_reload(Snapshot(cf, gf)))
        /\ Record("force_reload", cf, gf)
        /\ arg' = NoArg
    /\ UNCHANGED <<pc, env_vars, pass_vars, daemon_vars>>

InitReload ==
    InitWith(ReloadCacheFiles, ReloadConfigFiles, {{ImageA, ImageB}},
             {MonitorNames}, {120})

NextReload ==
    \/ LoadState
    \/ ApiReload
    \/ ApiForceReload

SpecReload == InitReload /\ [][NextReload]_vars

----------------------------------------------------------------------------
(* The library driven call by call: State::load, then selection passes      *)
(* (update_wallpapers, as `switch` calls it) while the clock advances.      *)

\* main.rs:147-159: switch, for one monitor or for all.
ApiSwitch(requested) ==
    /\ pc = "idle"
    /\ update_wallpapers(requested, "idle")
    /\ Record("update_wallpapers", cache_file, config_file)
    /\ arg' = Args(requested, "", FALSE)
    /\ UNCHANGED <<state_vars, disk_vars, env_vars, daemon_vars>>

\* Time passes.
Tick(instants) ==
    /\ \E t \in instants : t > clock /\ clock' = t
    /\ UNCHANGED <<state_vars, disk_vars, files, connected_monitors, pc,
                   pass_vars, daemon_vars, err, hist_vars>>

\* 17:00, the last tick of a.png's window, and 17:05.
PassInstants == {204, 205}

PassCacheMaps ==
    { EmptyMap,
      [m \in {"DP-1"} |-> ImageA],
      [m \in MonitorNames |-> IF m = "DP-1" THEN ImageA ELSE ImageB],
      [m \in MonitorNames |-> ImageB] }

PassCacheFiles ==
    { Holding(CacheOf(CACHE_VERSION, 120, im)) : im \in PassCacheMaps }
    \cup { Absent(DefaultCache) }

PassConfigFiles == {Holding(ConfigAB), Holding(ConfigA)}

PassFileSets == SUBSET {ImageA, ImageB, DefaultImage}

PassMonitorSets == {{}, {"HDMI-1"}, MonitorNames}

Requests ==
    {MonitorsAll, MonitorsSome(<<"DP-1">>), MonitorsSome(<<"HDMI-1">>)}

InitPass ==
    InitWith(PassCacheFiles, PassConfigFiles, PassFileSets, PassMonitorSets,
             PassInstants)

NextPass ==
    \/ LoadState
    \/ \E requested \in Requests : ApiSwitch(requested)
    \/ PassStep
    \/ Tick(PassInstants)

SpecPass == InitPass /\ [][NextPass]_vars

----------------------------------------------------------------------------
(* The handlers `switch` and `select` (main.rs:147-196) called one by one,  *)
(* and update_wallpapers with any Monitors, while image files are removed.  *)

\* a.png under its absolute path, from 9 to 17, and b.png all day.
ConfigAbs ==
    [ConfigAB EXCEPT
        !.images = [p \in {ImageA, "b.png"} |->
                      IF p = ImageA THEN <<[start |-> 108, end |-> 204]>>
                      ELSE <<ALL>>]]

\* A directory, a file, and a path that does not exist.
SelectPaths == {"/pics", ImageA, "/nowhere"}

HandlerRequests ==
    {MonitorsAll, MonitorsSome(<<"DP-1">>), MonitorsSome(<<"DP-1", "HDMI-1">>)}

\* main.rs:161-196: select.
ApiSelect(path, keep_old) ==
    /\ pc = "idle"
    /\ select(path, keep_old, "idle")
    /\ Record("select", cache_file, config_file)
    /\ arg' = Args(MonitorsAll, path, keep_old)
    /\ UNCHANGED <<cache, last_loaded_cache_hash, last_loaded_config_hash,
                   disk_vars, env_vars, daemon_vars>>

\* An image file is removed (Path::is_file, lib.rs:57 and 141, is asked anew
\* for every monitor).
Unlink(f) ==
    /\ f \in files
    /\ files' = files \ {f}
    /\ UNCHANGED <<state_vars, disk_vars, connected_monitors, clock, pc,
                   pass_vars, daemon_vars, err, hist_vars>>

InitHandlers ==
    InitWith({Absent(DefaultCache)}, {Holding(ConfigAB), Holding(ConfigAbs)},
             {{ImageA, ImageB}}, PassMonitorSets, PassInstants)

NextHandlers ==
    \/ LoadState
    \/ \E requested \in HandlerRequests : ApiSwitch(requested)
    \/ \E path \in SelectPaths, keep_old \in BOOLEAN : ApiSelect(path, keep_old)
    \/ PassStep
    \/ \E f \in files : Unlink(f)

SpecHandlers == InitHandlers /\ [][NextHandlers]_vars

----------------------------------------------------------------------------
(* Properties of the reconcile, under SpecReload *)

Reconciled == op \in {"load", "reload", "force_reload"}
NonForced == op \in {"load", "reload"}

\* The cache file the last call found, when it could be read.
FoundCache == disk0[1].val
FoundConfig == disk0[2].val

\* The monitor is outside the selector (stated without Monitors::includes).
Excluded(selector, m) ==
    ~selector.all /\ \A i \in DOMAIN selector.list : selector.list[i] # m

\* The entry of monitor m is the same in both maps, or in neither.
SameEntry(map1, map2, m) ==
    /\ m \in DOMAIN map1 <=> m \in DOMAIN map2
    /\ m \in DOMAIN map1 => map1[m] = map2[m]

\* C3: a non-forced reconcile that finds a config file whose fingerprint
\* differs from the recorded one replaces the in-memory Config by it, also when
\* the cache of the same call was skipped as unchanged.
C3_ChangedConfigReplaces ==
    (NonForced /\ disk0[1].kind # "corrupt" /\ disk0[2].kind = "ok"
        /\ hash_config(FoundConfig) # before.hf)
    => config = FoundConfig

\* C6: the second of two reloads in a row that find the same two files changes
\* neither the in-memory cache (last_update, last_images, last_transitions)
\* nor the in-memory Config.
C6_RepeatedReloadChangesNothing ==
    note \in {"repeat", "repeat_after_change"}
    => cache = before.cache /\ config = before.config

\* C6 witness: a repeated reload whose first call did change the memory.
C6_Witness ==
    /\ op = "reload"
    /\ note = "repeat_after_change"
    /\ disk0[1].kind = "ok" /\ disk0[2].kind = "ok"

\* C7: a reconcile, forced or not, that finds a cache file of another version
\* leaves last_images, last_transitions and last_update as they were.
C7_VersionMismatchNeverMerges ==
    (Reconciled /\ disk0[1].kind = "ok" /\ FoundCache.version # CACHE_VERSION)
    => /\ cache.last_images = before.cache.last_images
       /\ cache.last_transitions = before.cache.last_transitions
       /\ cache.last_update = before.cache.last_update

\* C7 witness: a forced reconcile found a cache file of another version whose
\* entries and timestamp are not those in memory.
C7_Witness ==
    /\ op = "force_reload"
    /\ disk0[1].kind = "ok" /\ FoundCache.version # CACHE_VERSION
    /\ FoundCache.last_update # cache.last_update
    /\ \E m \in DOMAIN FoundCache.last_images :
          /\ m \in DOMAIN cache.last_images
          /\ cache.last_images[m] # FoundCache.last_images[m]

\* C8: a reconcile changes no entry of a monitor that the in-memory selector,
\* as it is when the call begins, excludes: the entry is not copied from the
\* file, and an entry already in memory keeps its value.
C8_ExcludedMonitorsNotMerged ==
    Reconciled =>
        \A m \in MonitorNames :
            Excluded(before.config.monitors, m)
            => /\ SameEntry(cache.last_images, before.cache.last_images, m)
               /\ SameEntry(cache.last_transitions,
                            before.cache.last_transitions, m)

\* C8 witness: a merge copied the entry of an included monitor and kept the
\* differing in-memory entry of an excluded one.
C8_Witness ==
    /\ Reconciled
    /\ disk0[1].kind = "ok" /\ FoundCache.version = CACHE_VERSION
    /\ \E m \in DOMAIN FoundCache.last_images :
          /\ Excluded(before.config.monitors, m)
          /\ m \in DOMAIN cache.last_images
          /\ cache.last_images[m] # FoundCache.last_images[m]
    /\ \E m \in DOMAIN FoundCache.last_images :
          /\ ~Excluded(before.config.monitors, m)
          /\ cache.last_images[m] = FoundCache.last_images[m]
          /\ ~SameEntry(cache.last_images, before.cache.last_images, m)

\* An entry of the in-memory maps that a reconcile has no reason to touch.
NotMerged(m) ==
    \/ Excluded(before.config.monitors, m)
    \/ disk0[1].kind # "ok"
    \/ m \notin DOMAIN FoundCache.last_images

\* C9: a reconcile removes no key of last_images or last_transitions, and the
\* entries of monitors outside the filter or absent from the file it found
\* keep their values.
C9_ReconcileRemovesNoKey ==
    Reconciled =>
        /\ DOMAIN before.cache.last_images \subseteq DOMAIN cache.last_images
        /\ DOMAIN before.cache.last_transitions
              \subseteq DOMAIN cache.last_transitions
        /\ \A m \in DOMAIN before.cache.last_images :
              NotMerged(m)
              => /\ cache.last_images[m] = before.cache.last_images[m]
                 /\ cache.last_transitions[m] = before.cache.last_transitions[m]

\* C9 witness: a merge changed one entry while memory held an entry for a
\* monitor that the file does not mention.
C9_Witness ==
    /\ Reconciled
    /\ disk0[1].kind = "ok" /\ FoundCache.version = CACHE_VERSION
    /\ \E m \in DOMAIN before.cache.last_images :
          /\ m \notin DOMAIN FoundCache.last_images
          /\ m \in DOMAIN cache.last_images
    /\ \E m \in DOMAIN FoundCache.last_images :
          ~SameEntry(cache.last_images, before.cache.last_images, m)

----------------------------------------------------------------------------
(* Properties of the selection pass, under SpecPass *)

\* The configured images whose windows include `now`, as paths.
ValidAt(now) ==
    { join(config.image_dir, path) :
        path \in { q \in DOMAIN config.images :
                     \E i \in DOMAIN config.images[q] :
                        /\ config.images[q][i].start <= now
                        /\ now <= config.images[q][i].end } }

\* The last-shown images of all monitors before the pass began.
PrePassShown ==
    { before.cache.last_images[m] : m \in DOMAIN before.cache.last_images }

\* The candidates of tier n at `now`.
TierSet(n, now) ==
    CASE n = 1 -> ValidAt(now) \ PrePassShown
      [] n = 2 -> ValidAt(now)
      [] n = 3 -> { join(config.image_dir, path) : path \in DOMAIN config.images }
      [] OTHER -> {DefaultImage}

\* C1: the image chosen for a monitor is an existing file of the
\* lowest-numbered tier that holds an existing file.
C1_LowestTierWithExistingFile ==
    \A m \in DOMAIN picks :
        /\ picks[m].image \in TierSet(picks[m].tier, picks[m].now) \cap files
        /\ \A n \in 1..4 :
              n < picks[m].tier => TierSet(n, picks[m].now) \cap files = {}

\* C1 witness: images are valid at `now` but none of them exists, and the
\* monitor got an image of tier 3.
C1_Witness ==
    \E m \in DOMAIN picks :
        /\ picks[m].tier = 3
        /\ ValidAt(picks[m].now) # {}
        /\ picks[m].image \notin ValidAt(picks[m].now)

\* Scenario E: a finished pass over both monitors, neither with a cached
\* image before the pass, with x the one image that is valid and exists.
ScenarioE(x) ==
    /\ op = "update_wallpapers" /\ pc = "idle"
    /\ DOMAIN picks = MonitorNames
    /\ DOMAIN before.cache.last_images = {}
    /\ \A m \in MonitorNames : ValidAt(picks[m].now) \cap files = {x}

\* C2 as stated: at most one of the two monitors is assigned that image.
C2_AtMostOneMonitorGetsIt ==
    \A x \in {ImageA, ImageB} :
        ScenarioE(x) => \E m \in MonitorNames : picks[m].image # x

\* C2 amended: both monitors are assigned that image.
C2_BothMonitorsGetIt ==
    \A x \in {ImageA, ImageB} :
        ScenarioE(x) => \A m \in MonitorNames : picks[m].image = x

\* C2 witness: scenario E has happened while a second image is configured.
C2_Witness ==
    /\ ScenarioE(ImageB)
    /\ ImageA \in files
    /\ \A m \in MonitorNames : picks[m].tier = 1

\* C5: when some image is valid at `now`, exists and was not the last image
\* of any monitor before the pass, the image chosen was not the last image of
\* any monitor before the pass.
C5_NoRepeatWhileFreshImageExists ==
    \A m \in DOMAIN picks :
        (ValidAt(picks[m].now) \cap files) \ PrePassShown # {}
        => picks[m].image \notin PrePassShown

\* C5 witness: both monitors were served while one valid, existing image had
\* been shown before the pass and another had not.
C5_Witness ==
    /\ DOMAIN picks = MonitorNames
    /\ \A m \in MonitorNames :
          /\ (ValidAt(picks[m].now) \cap files) \ PrePassShown # {}
          /\ ValidAt(picks[m].now) \cap files \cap PrePassShown # {}

\* The monitor served last in the running or last pass.
Latest(m) == m \in DOMAIN picks /\ picks[m].n = Cardinality(DOMAIN picks)

\* C10: when the image chosen for a monitor is the one cached for it, the
\* presenter is not invoked, and yet the monitor's entry holds the chosen image
\* and transition, last_update is the time of the choice and the cache file
\* holds the in-memory cache.
C10_SameImageSkipsPresenterOnly ==
    \A m \in DOMAIN picks :
        picks[m].image = picks[m].last_image
        => /\ ~picks[m].invoked
           /\ cache.last_images[m] = picks[m].image
           /\ cache.last_transitions[m] = picks[m].transition
           /\ Latest(m) => /\ cache.last_update = picks[m].at
                           /\ cache_file = Holding(cache)

\* C10 witness: the same image was chosen again, with another transition and
\* at a later time than the cache held.
C10_Witness ==
    \E m \in DOMAIN picks :
        /\ Latest(m)
        /\ picks[m].image = picks[m].last_image
        /\ m \in DOMAIN before.cache.last_transitions
        /\ before.cache.last_transitions[m] # picks[m].transition
        /\ before.cache.last_update < picks[m].at
        /\ before.cache.last_images[m] = picks[m].image

----------------------------------------------------------------------------
(* The daemon: main.rs:198-271 *)

\* IpcEvent (ipc.rs:25-40).
Reload == [type |-> "Reload", monitor |-> None, path |-> "", keep_old |-> FALSE]
Switch(monitor) ==
    [type |-> "Switch", monitor |-> monitor, path |-> "", keep_old |-> FALSE]
Select(path, keep_old) ==
    [type |-> "Select", monitor |-> None, path |-> path, keep_old |-> keep_old]

\* main.rs:234-240: IpcEvent::Reload.
HandleReload ==
    /\ Install(force_reload(Snapshot(cache_file, config_file)))
    /\ pc' = continue_at("drain", err')
    /\ UNCHANGED <<pass_vars, hist_vars>>

\* main.rs:241-245 and 147-159: IpcEvent::Switch.
HandleSwitch(monitor) ==
    /\ update_wallpapers(IF monitor = None THEN MonitorsAll
                         ELSE MonitorsSome(<<monitor>>), "drain")
    /\ UNCHANGED <<state_vars, disk_vars, hist_vars>>

\* main.rs:246-250: IpcEvent::Select.
HandleSelect(path, keep_old) ==
    /\ select(path, keep_old, "drain")
    /\ UNCHANGED <<cache, last_loaded_cache_hash, last_loaded_config_hash,
                   disk_vars, hist_vars>>

bucket_always(last_time, now, update_interval) == TRUE

\* main.rs:221: the bucket of the clock is past the bucket of last_update.
bucket_increased(last_time, now, update_interval) ==
    last_time \div update_interval < now \div update_interval

\* History: the number of whole update intervals since the epoch has grown
\* since last_update.
CycleDue ==
    \E k \in 0..clock :
        /\ cache.last_update < k * config.update_interval
        /\ k * config.update_interval <= clock

\* History: the outcome of the handler that ran last is added to the cycle.
Failed == cycle.failed \/ (err # "" /\ site = "event")

\* main.rs:205-225: the head of a cycle.  The scheduled pass runs when the
\* bucket of the clock is past the bucket of last_update.
Wake ==
    /\ pc = "wake"
    /\ current_time' = clock
    /\ IF bucket_increased(cache.last_update, clock, config.update_interval)
       THEN /\ update_wallpapers(MonitorsAll, "sleep")
            /\ site' = "scheduled"
            /\ cycle' = [NoCycle EXCEPT !.due = CycleDue, !.scheduled = 1]
       ELSE /\ pc' = "sleep"
            /\ cycle' = [NoCycle EXCEPT !.due = CycleDue]
            /\ UNCHANGED <<pass_vars, err, site>>
    /\ last_handled' = NoArrival
    /\ UNCHANGED <<state_vars, disk_vars, env_vars, queue, deadline, sent,
                   stamps, enqueued, ipc_vars, hist_vars>>

to_sleep_whole(check_interval, now) == check_interval

\* main.rs:227: the time to the next multiple of check_interval.
to_sleep(check_interval, now) == check_interval - (now % check_interval)

\* main.rs:231: u64::MAX nanoseconds in whole ticks, the longest wait that
\* Duration::from_nanos can be given ((2^64 - 1) ns / 300 s).
MaxSleepTicks == 61489146

\* main.rs:227-231 and 253: to_sleep, its conversion to a Duration of u64
\* nanoseconds, whose failure ends the daemon, and the start of recv_timeout.
Sleep ==
    /\ pc = "sleep"
    /\ IF to_sleep(config.check_interval, current_time) > MaxSleepTicks
       THEN /\ err' = "can't sleep that long"
            /\ pc' = "exited"
            /\ UNCHANGED deadline
       ELSE /\ deadline' = clock + to_sleep(config.check_interval, current_time)
            /\ pc' = "await"
            /\ UNCHANGED err
    /\ UNCHANGED <<state_vars, disk_vars, env_vars, pass_vars, queue,
                   current_time, site, sent, cycle, arrival_vars, ipc_vars,
                   hist_vars>>

recv_newest(q) == [msg |-> q[Len(q)], rest |-> SubSeq(q, 1, Len(q) - 1)]

\* Receiver::recv_timeout / try_recv on a channel that holds a message
\* (main.rs:253, 257): the oldest message, and what stays queued.
recv(q) == [msg |-> Head(q), rest |-> Tail(q)]

timed_out_with_messages(q, now, until) == now >= until

\* Receiver::recv_timeout gives up (main.rs:261-262): no message has come
\* and the time is over.
timed_out(q, now, until) == q = <<>> /\ now >= until

\* main.rs:253-259: recv_timeout or try_recv returns a message; handle_msg.
Receive ==
    /\ pc \in {"await", "drain"}
    /\ queue # <<>>
    /\ queue' = recv(queue).rest
    /\ stamps' = recv(stamps).rest
    /\ last_handled' = recv(stamps).msg
    /\ site' = "event"
    /\ cycle' = [cycle EXCEPT !.handled = @ + 1, !.failed = Failed]
    /\ LET msg == recv(queue).msg IN
         \/ msg.type = "Reload" /\ HandleReload
         \/ msg.type = "Switch" /\ HandleSwitch(msg.monitor)
         \/ msg.type = "Select" /\ HandleSelect(msg.path, msg.keep_old)
    /\ UNCHANGED <<env_vars, current_time, deadline, sent, enqueued, ipc_vars>>

\* main.rs:261-262: recv_timeout times out; main.rs:257: try_recv finds nothing.
NoMessage ==
    /\ \/ pc = "await" /\ timed_out(queue, clock, deadline)
       \/ pc = "drain" /\ queue = <<>>
    /\ pc' = "reload"
    /\ cycle' = [cycle EXCEPT !.failed = Failed]
    /\ UNCHANGED <<state_vars, disk_vars, env_vars, pass_vars, queue,
                   current_time, deadline, site, sent, arrival_vars, ipc_vars,
                   err, hist_vars>>

\* main.rs:267-269: the reload that ends every cycle.
DaemonReload ==
    /\ pc = "reload"
    /\ Install(reload(Snapshot(cache_file, config_file)))
    /\ site' = "reconcile"
    /\ cycle' = [cycle EXCEPT !.reconciles = @ + 1]
    /\ stamps' = [i \in DOMAIN stamps |-> [stamps[i] EXCEPT !.across = @ + 1]]
    /\ pc' = continue_at("wake", err')
    /\ UNCHANGED <<env_vars, pass_vars, queue, current_time, deadline, sent,
                   enqueued, last_handled, ipc_vars, hist_vars>>

\* A client's event reaches the channel (ipc.rs:111-117).  The channel is read
\* only while the loop waits or drains, so that is where arrivals are placed.
MaxQueue == 1
MaxEvents == 2
Send(event) ==
    /\ pc \in {"await", "drain"}
    /\ Len(queue) < MaxQueue
    /\ sent < MaxEvents
    /\ queue' = Append(queue, event)
    /\ stamps' = Append(stamps, Arrival(0))
    /\ enqueued' = enqueued + 1
    /\ sent' = sent + 1
    /\ UNCHANGED <<state_vars, disk_vars, env_vars, pc, pass_vars,
                   current_time, deadline, site, cycle, last_handled, ipc_vars,
                   err, hist_vars>>

\* Somebody writes, damages or removes cache.json while the loop waits.
WriteCacheFile(f) ==
    /\ pc = "await"
    /\ f # cache_file
    /\ cache_file' = f
    /\ UNCHANGED <<state_vars, config_file, env_vars, pc, pass_vars,
                   daemon_vars, err, hist_vars>>

\* Somebody writes, damages or removes config.json while the loop waits.
WriteConfigFile(f) ==
    /\ pc = "await"
    /\ f # config_file
    /\ config_file' = f
    /\ UNCHANGED <<state_vars, cache_file, env_vars, pc, pass_vars,
                   daemon_vars, err, hist_vars>>

\* The daemon is watched for MaxTicks ticks from 17:00 on.  A tick is long
\* against a handler: the clock advances while the loop waits in recv_timeout
\* (a pass during which the clock advances is part of SpecPass).
StartClock == 17 * 12
MaxTicks == 2

\* The events of the daemon's clients.  (A select that finds its path is
\* followed through in SpecHandlers.)
Events ==
    { Reload, Switch(None), Switch("DP-1"), Select("/nowhere", TRUE) }

DaemonCacheEdits == { Corrupt(DefaultCache) }
DaemonConfigEdits ==
    { Corrupt(DefaultConfig), Holding([ConfigA EXCEPT !.transitions = <<"fade">>]) }

Init ==
    InitWith({Absent(DefaultCache)}, {Holding(ConfigAB)},
             {{ImageA, ImageB}, {ImageB}, {}}, {MonitorNames, {"HDMI-1"}},
             {StartClock})

Next ==
    \/ Load("wake")
    \/ Wake
    \/ PassStep
    \/ Sleep
    \/ Receive
    \/ NoMessage
    \/ DaemonReload
    \/ pc = "await" /\ clock < StartClock + MaxTicks /\ Tick({clock + 1})
    \/ \E event \in Events : Send(event)
    \/ \E f \in DaemonCacheEdits : WriteCacheFile(f)
    \/ \E f \in DaemonConfigEdits : WriteConfigFile(f)

Spec == Init /\ [][Next]_vars

----------------------------------------------------------------------------
(* The control channel: ipc.rs, with the daemon loop behind it *)

\* A line of a connection's stream: the JSON text of an event (ipc.rs:147-157)
\* or text that serde_json::from_str does not decode (ipc.rs:111, 118).
Line(event) == [ok |-> TRUE, event |-> event]
GarbageLine == [ok |-> FALSE, event |-> Reload]

\* All but the part of conns that the named connection owns is left alone.
OnlyConn(c, new) == conns' = [conns EXCEPT ![c] = new]

\* Everything but the control channel's own variables.
scheduler_vars ==
    <<state_vars, disk_vars, env_vars, pc, pass_vars, current_time, deadline,
      site, cycle, last_handled, err, hist_vars>>

\* ipc.rs:48-72 (main.rs:199-201): Listener::bind.  UnixListener::bind fails
\* when the socket path exists; the error ends `daemon` before a Listener is
\* made.
Bind ==
    /\ pc = "bind"
    /\ IF socket_file
       THEN /\ err' = "while starting ipc server"
            /\ pc' = "exited"
            /\ UNCHANGED <<listener, socket_file>>
       ELSE /\ socket_file' = TRUE
            /\ listener' = "listening"
            /\ pc' = "wake"
            /\ UNCHANGED err
    /\ UNCHANGED <<state_vars, disk_vars, env_vars, pass_vars, queue,
                   current_time, deadline, site, sent, cycle, arrival_vars,
                   conns, drops, hist_vars>>

remove_nothing(exists) == exists

\* std::fs::remove_file on the socket path (ipc.rs:86).
remove_file(exists) == FALSE

\* The daemon's end of every connection is closed.
AllClosed ==
    [c \in Conns |-> [conns[c] EXCEPT !.handler = "stopped", !.stream = <<>>]]

\* ipc.rs:83-88: Drop for Listener, as `daemon` returns its error to `main`
\* and the process ends.
Drop ==
    /\ pc = "exited"
    /\ listener = "listening"
    /\ listener' = "closed"
    /\ socket_file' = remove_file(socket_file)
    /\ drops' = drops + 1
    /\ conns' = AllClosed
    /\ UNCHANGED <<scheduler_vars, queue, sent, stamps, enqueued>>

\* The memory of a process that has not run yet, or that is gone.
NoProcess ==
    /\ config' = DefaultConfig
    /\ cache' = DefaultCache
    /\ last_loaded_cache_hash' = hash_cache(DefaultCache)
    /\ last_loaded_config_hash' = hash_config(DefaultConfig)
    /\ ret' = "idle"
    /\ monitors' = {}
    /\ last_images' = {}
    /\ picks' = EmptyMap
    /\ queue' = <<>>
    /\ stamps' = <<>>
    /\ last_handled' = NoArrival
    /\ current_time' = 0
    /\ deadline' = 0
    /\ site' = "none"
    /\ cycle' = NoCycle
    /\ err' = ""

\* The daemon process is killed: nothing is dropped.
Kill ==
    /\ listener = "listening"
    /\ listener' = "killed"
    /\ pc' = "exited"
    /\ conns' = AllClosed
    /\ NoProcess
    /\ UNCHANGED <<disk_vars, env_vars, sent, enqueued, socket_file, drops,
                   hist_vars>>

\* The daemon is started again after it has ended (main.rs:280-288).
MaxDrops == 1
Restart ==
    /\ pc = "exited"
    /\ listener # "listening"
    /\ drops <= MaxDrops
    /\ pc' = "start"
    /\ conns' = [c \in Conns |-> NoConn]
    /\ NoProcess
    /\ UNCHANGED <<disk_vars, env_vars, sent, enqueued, listener, socket_file,
                   drops, hist_vars>>

\* ipc.rs:56-66: the accept thread takes the stream of a client that has
\* connected (Client::connect, ipc.rs:136-141) and hands it to a new handler
\* thread.  A connection is counted from this step on (one that waits to be
\* accepted behaves as one whose handler has not read yet), and connections
\* are numbered in the order in which they are accepted.
Accept(c) ==
    /\ listener = "listening"
    /\ conns[c].client = "none"
    /\ conns[c].handler = "none"
    /\ \A d \in Conns : d < c => conns[d].client # "none"
    /\ OnlyConn(c, [conns[c] EXCEPT !.client = "ready", !.handler = "running"])
    /\ UNCHANGED <<scheduler_vars, queue, sent, stamps, enqueued, listener,
                   socket_file, drops>>

\* ipc.rs:178-179: Client::send puts the event on the writer's channel; the
\* caller then waits in fin_recv.recv() (ipc.rs:180).
ClientSend(c, event) ==
    /\ conns[c].client = "ready"
    /\ sent < MaxEvents
    /\ sent' = sent + 1
    /\ OnlyConn(c, [conns[c] EXCEPT !.client = "sending",
                                   !.chan = Append(@, event),
                                   !.wrote = "none"])
    /\ UNCHANGED <<scheduler_vars, queue, stamps, enqueued, listener,
                   socket_file, drops>>

\* UnixStream::write_all (ipc.rs:159) succeeds while the daemon's end of the
\* connection is open.
write_ok(conn) == conn.handler # "stopped"

\* ipc.rs:145-163: the writer thread takes an event, writes its line, logs a
\* failed write, and signals the caller in either case.
WriterStep(c) ==
    /\ conns[c].chan # <<>>
    /\ OnlyConn(c, [conns[c] EXCEPT
            !.chan = Tail(@),
            !.stream = IF write_ok(conns[c])
                       THEN Append(@, Line(Head(conns[c].chan))) ELSE @,
            !.wrote = IF write_ok(conns[c]) THEN "ok" ELSE "failed",
            !.fins = @ + 1])
    /\ UNCHANGED <<scheduler_vars, queue, sent, stamps, enqueued, listener,
                   socket_file, drops>>

\* ipc.rs:180-182: fin_recv.recv() returns and so does Client::send.
ClientReturn(c) ==
    /\ conns[c].client = "sending"
    /\ conns[c].fins > 0
    /\ OnlyConn(c, [conns[c] EXCEPT
            !.client = "ready", !.fins = @ - 1,
            !.wrote = IF conns[c].wrote = "failed" THEN "lost" ELSE "none"])
    /\ UNCHANGED <<scheduler_vars, queue, sent, stamps, enqueued, listener,
                   socket_file, drops>>

\* Some other program that has connected writes a line that is no IpcEvent
\* (one such program for each daemon: the connection accepted first).
RawWrite(c) ==
    /\ c = 1
    /\ conns[c].client = "ready"
    /\ write_ok(conns[c])
    /\ \A d \in Conns :
          /\ conns[d].handler # "stopped"
          /\ \A i \in DOMAIN conns[d].stream : conns[d].stream[i].ok
    /\ OnlyConn(c, [conns[c] EXCEPT !.stream = Append(@, GarbageLine)])
    /\ UNCHANGED <<scheduler_vars, queue, sent, stamps, enqueued, listener,
                   socket_file, drops>>

ForwardAndApply(c, event) ==
    /\ queue' = Append(queue, event)
    /\ stamps' = Append(stamps, Arrival(c))
    /\ enqueued' = enqueued + 1
    /\ OnlyConn(c, [conns[c] EXCEPT !.stream = Tail(@)])
    /\ config' = [config EXCEPT !.images = EmptyMap]
    /\ UNCHANGED <<cache, last_loaded_cache_hash, last_loaded_config_hash,
                   disk_vars, env_vars, pc, pass_vars, current_time, deadline,
                   site, cycle, last_handled, err, hist_vars>>

\* ipc.rs:111-117 and 125: a decoded event is sent to the daemon's channel.
Forward(c, event) ==
    /\ queue' = Append(queue, event)
    /\ stamps' = Append(stamps, Arrival(c))
    /\ enqueued' = enqueued + 1
    /\ OnlyConn(c, [conns[c] EXCEPT !.stream = Tail(@)])
    /\ UNCHANGED scheduler_vars

on_decode_error_all(cs, c) ==
    [d \in DOMAIN cs |-> [cs[d] EXCEPT !.handler = "stopped", !.stream = <<>>]]

\* ipc.rs:118-123: the handler of the connection returns; its stream is
\* dropped with it.
on_decode_error(cs, c) ==
    [cs EXCEPT ![c].handler = "stopped", ![c].stream = <<>>,
               ![c].stop = [enq |-> enqueued, taken |-> enqueued - Len(queue)]]

\* ipc.rs:118-123: a line that does not decode.
Undecoded(c) ==
    /\ conns' = on_decode_error(conns, c)
    /\ UNCHANGED <<scheduler_vars, queue, stamps, enqueued>>

\* ipc.rs:93-126: one turn of handle_client's loop on a line of the stream.
HandlerRead(c) ==
    /\ listener = "listening"
    /\ conns[c].handler = "running"
    /\ conns[c].stream # <<>>
    /\ LET line == Head(conns[c].stream) IN
         IF line.ok THEN Forward(c, line.event) ELSE Undecoded(c)
    /\ UNCHANGED <<sent, listener, socket_file, drops>>

IpcEvents == { Switch(None) }
MaxIpcTicks == 1

InitIpc ==
    InitWith({Absent(DefaultCache)}, {Holding(ConfigAB)},
             {{ImageB}, {}}, {{"HDMI-1"}}, {StartClock})

\* The steps of the thread that runs `main` and `daemon`.
SchedulerStep ==
    \/ Load("bind")
    \/ Bind
    \/ Wake
    \/ PassStep
    \/ Sleep
    \/ Receive
    \/ NoMessage
    \/ DaemonReload
    \/ Drop

\* The steps of the accept thread and of the connection handlers.
ChannelStep ==
    \E c \in Conns :
        \/ Accept(c)
        \/ HandlerRead(c)

\* The steps of the client programs.
ClientStep ==
    \E c \in Conns :
        \/ \E event \in IpcEvents : ClientSend(c, event)
        \/ WriterStep(c)
        \/ ClientReturn(c)
        \/ RawWrite(c)

NextIpc ==
    \/ SchedulerStep
    \/ ChannelStep
    \/ ClientStep
    \/ Kill
    \/ Restart
    \/ pc = "await" /\ clock < StartClock + MaxIpcTicks /\ Tick({clock + 1})

SpecIpc == InitIpc /\ [][NextIpc]_vars

----------------------------------------------------------------------------
(* Properties of the daemon loop (Spec) *)

\* C4 as stated: in the daemon loop every fatal condition terminates the loop,
\* whether it arises in a scheduled pass, in the end-of-cycle reconcile or
\* while an event is handled: whenever the last call failed, the loop is over.
C4_EveryFatalConditionTerminates ==
    err # "" => pc = "exited"

\* C4, corrected: a fatal condition terminates the loop when it arises at
\* startup, in a scheduled pass or in the end-of-cycle reconcile; when it
\* arises while a Reload, Switch or Select event is handled, the loop goes on.
C4_FatalTerminatesExceptInEvents ==
    /\ err # "" /\ site # "event" => pc = "exited"
    /\ err # "" /\ site = "event" => pc \in {"drain", "reload", "wake", "sleep", "await"}

\* An event handler has failed and the loop drains the channel as usual.
C4_Witness ==
    /\ err # ""
    /\ site = "event"
    /\ pc = "drain"

\* The daemon is inside a cycle: past its head and before its end.
InCycle == pc \in {"pass", "sleep", "await", "drain", "reload"}

\* C11: a cycle runs one scheduled pass over all connected monitors, and
\* finishes it before the wait on the channel begins, when the number of whole
\* update intervals since the epoch has grown since last_update; it runs no
\* scheduled pass otherwise.
C11_ScheduledPassIffBucketIncreased ==
    /\ pc # "start" => cycle.scheduled = (IF cycle.due THEN 1 ELSE 0)
    /\ (pc \in {"sleep", "await"} /\ cycle.handled = 0 /\ cycle.due)
       => /\ site = "scheduled"
          /\ DOMAIN picks = connected_monitors
          /\ \A m \in DOMAIN picks : picks[m].at = current_time
          /\ cache.last_update = current_time
    /\ (pc \in {"sleep", "await"} /\ cycle.handled = 0 /\ ~cycle.due)
       => site \in {"none", "reconcile"}

\* C11 witness: a later cycle waits on the channel after its scheduled pass
\* has served both monitors.
C11_Witness ==
    /\ pc = "await"
    /\ cycle.due /\ cycle.scheduled = 1 /\ cycle.handled = 0
    /\ current_time > StartClock
    /\ DOMAIN picks = MonitorNames

\* C13: a cycle ends with one reconcile of the daemon loop (State::reload), and
\* none runs before its end, whether the wait timed out, events were handled
\* or a handler failed.
C13_OneReconcileEndsEveryCycle ==
    /\ pc = "wake" => (cycle.reconciles = 1 \/ site = "none")
    /\ InCycle => cycle.reconciles = 0
    /\ pc = "exited" => cycle.reconciles = (IF site = "reconcile" THEN 1 ELSE 0)
    /\ cycle.reconciles = 1 => site = "reconcile"

\* C13 witness: a cycle in which two events were handled, one of them with an
\* error, has ended with its reconcile.
C13_Witness ==
    /\ pc = "wake"
    /\ cycle.handled = 2 /\ cycle.failed
    /\ cycle.reconciles = 1
    /\ site = "reconcile" /\ err = ""

----------------------------------------------------------------------------
(* Properties of the control channel (SpecIpc) *)

\* C12: the messages of the queue are received in the order of their arrival
\* (the queue always holds the newest arrivals, oldest first, and the message
\* received last is the one that arrived just before them), and a message
\* that arrived before the wait of a cycle ended is never in the queue when
\* that cycle's reconcile runs: only a message that arrived after the wait
\* and the draining were over stays queued over a reconcile, and over one only.
C12_HandledInArrivalOrderBeforeReconcile ==
    /\ Len(stamps) = Len(queue)
    /\ \A i \in DOMAIN stamps :
          /\ stamps[i].n = enqueued - Len(queue) + i
          /\ stamps[i].across <= (IF stamps[i].at = "reload" THEN 1 ELSE 0)
    /\ last_handled.n \in {0, enqueued - Len(queue)}
    /\ last_handled.across <= (IF last_handled.at = "reload" THEN 1 ELSE 0)

\* C12 witness: two messages were in the queue when the wait returned; both
\* were handled, the older first, and the cycle's reconcile has run.
C12_Witness ==
    /\ pc = "wake" /\ site = "reconcile"
    /\ cycle.handled = 2
    /\ last_handled.n = 2 /\ last_handled.at = "await"
    /\ queue = <<>>

\* The in-memory state of the daemon.
Memory == <<config, cache, last_loaded_cache_hash, last_loaded_config_hash>>

\* C14: a step of the accept thread or of a connection handler leaves Config,
\* Cache and the two files alone and does nothing to the queue but append one
\* event; Config and Cache change only in steps of the scheduler (or as the
\* process ends or starts).
C14_OnlySchedulerTouchesState ==
    [][ /\ ChannelStep
           => /\ UNCHANGED <<Memory, cache_file, config_file>>
              /\ queue' = queue \/ \E event \in IpcEvents : queue' = Append(queue, event)
        /\ Memory' # Memory
           => SchedulerStep \/ pc' \in {"start", "exited"} ]_vars

\* C14 witness: an event that a connection handler forwarded has been handled
\* by the scheduler, whose pass has changed the cache.
C14_Witness ==
    /\ pc = "drain" /\ site = "event"
    /\ last_handled.conn \in Conns
    /\ DOMAIN picks # {}
    /\ cache.last_update = clock

\* C15: when the handler of one connection ends on a line that does not
\* decode, the queue with the events forwarded so far, the listener and the
\* other connections with their handlers are as they were.
C15_DecodeFailureStopsOneHandler ==
    [][ \A c \in Conns :
          (conns[c].handler = "running" /\ conns'[c].handler = "stopped"
              /\ listener' = "listening")
          => /\ queue' = queue
             /\ stamps' = stamps
             /\ listener' = listener
             /\ \A d \in Conns \ {c} : conns'[d] = conns[d] ]_vars

\* C15 witness: after the handler of one connection ended, an event it had
\* forwarded before was handled, and another connection's handler forwarded an
\* event that is now in the queue.
C15_Witness ==
    \E c \in Conns :
        /\ listener = "listening"
        /\ conns[c].handler = "stopped"
        /\ last_handled.conn = c
        /\ conns[c].stop.taken < last_handled.n
        /\ last_handled.n <= conns[c].stop.enq
        /\ stamps # <<>>
        /\ stamps[1].conn \in Conns \ {c}
        /\ conns[c].stop.enq < stamps[1].n

\* C16: Client::send has returned only for events whose line the writer has
\* written to the stream.
C16_SendReturnsAfterLineWritten ==
    \A c \in Conns : conns[c].wrote # "lost"

\* C17: the socket file of a dropped Listener is gone, the file of a listening
\* one exists, and a bind fails on an existing socket path only when a daemon
\* was killed, never after a Listener was dropped.
C17_DroppedListenerUnlinksSocket ==
    /\ listener = "closed" => ~socket_file
    /\ listener = "listening" => socket_file
    /\ err = "while starting ipc server" => listener = "killed" /\ socket_file

\* C17 witness: a daemon listens after the Listener of the daemon before it was
\* dropped.
C17_Witness ==
    /\ listener = "listening"
    /\ drops = 1
    /\ pc = "wake"

----------------------------------------------------------------------------
(* Properties of the handlers (SpecHandlers) *)

\* The files that existed under the path of the last call: the path itself
\* or the files of the directory it names.
FoundBy(a) ==
    { f \in a.files : f = a.path \/ <<a.path, f>> \in DirectoryTable }

\* The path of the last call was a file or a directory.
Traversable(a) ==
    a.path \in a.files \/ \E e \in DirectoryTable : e[1] = a.path

\* C18: once select has found the files under its path, and from the first
\* step of the pass it starts, the image map has exactly the found files as
\* its keys when keep_old is false, and the old keys and the found files when
\* it is true; every found file is mapped to [ALL] and every other old key to
\* its old value; what the pass picks from the map is a key of the new map.
\* (A path that cannot be read leaves the map as it was.)
C18_SelectSetsImagesBeforeThePass ==
    op = "select" =>
        IF Traversable(arg)
        THEN /\ DOMAIN config.images =
                    IF arg.keep_old
                    THEN DOMAIN before.config.images \cup FoundBy(arg)
                    ELSE FoundBy(arg)
             /\ \A f \in FoundBy(arg) : config.images[f] = <<ALL>>
             /\ \A q \in DOMAIN config.images \ FoundBy(arg) :
                    config.images[q] = before.config.images[q]
             /\ \A m \in DOMAIN picks :
                    picks[m].tier <= 3 => picks[m].image \in all_images(config)
        ELSE /\ config = before.config
             /\ err = "reading image directory"

\* C18 witness: select of the single file a.png with keep_old has replaced the
\* windows of the old key a.png by [ALL] and kept b.png, and the pass that
\* follows has not served a monitor yet.
C18_Witness ==
    /\ op = "select" /\ arg.keep_old /\ arg.path = ImageA
    /\ FoundBy(arg) = {ImageA}
    /\ pc = "pass" /\ picks = EmptyMap
    /\ ImageA \in DOMAIN before.config.images
    /\ before.config.images[ImageA] # <<ALL>>
    /\ config.images[ImageA] = <<ALL>>
    /\ DOMAIN config.images = {ImageA, "b.png"}

\* The monitors named by the Monitors::Some of the last call.
Requested(a) == { a.monitors.list[i] : i \in DOMAIN a.monitors.list }

\* C19: a pass for Some(S) while monitors are connected: if none of S is
\* connected it has failed with "no valid monitor available" with no monitor
\* served (so no presenter call) and with the cache and the cache file as they
\* were; otherwise the monitors it serves are exactly the connected members
\* of S.
C19_UnconnectedMonitorsDropped ==
    (op = "update_wallpapers" /\ ~arg.monitors.all /\ connected_monitors # {})
    => LET targets == Requested(arg) \cap connected_monitors IN
       IF targets = {}
       THEN /\ err = "no valid monitor available"
            /\ pc = "idle"
            /\ picks = EmptyMap
            /\ cache = before.cache
            /\ cache_file = disk0[1]
       ELSE /\ err # "no valid monitor available"
            /\ DOMAIN picks \cup monitors = targets
            /\ (pc = "idle" /\ err = "") => DOMAIN picks = targets

\* C19 witness: Scenario C, after an earlier pass has filled the cache.
C19_Witness ==
    /\ op = "update_wallpapers"
    /\ arg.monitors = MonitorsSome(<<"DP-1">>)
    /\ connected_monitors = {"HDMI-1"}
    /\ err = "no valid monitor available"
    /\ DOMAIN cache.last_images = {"HDMI-1"}
    /\ cache_file = Holding(cache)

\* The files any of the four tiers may yield.
Candidates(cfg) == all_images(cfg) \cup {DefaultImage}

\* A step of the pass (and not of its surroundings).
PassMoved ==
    <<pc, monitors, picks, cache, err>>' # <<pc, monitors, picks, cache, err>>

\* C20: a turn of the pass for which no file of any tier exists ends the pass
\* with "no valid image found": the monitors not yet served, the unserved one
\* among them, stay unserved and without a new cache entry, and the entries of
\* the monitors served before are in the cache and in the cache file; a turn
\* for which a file exists serves one monitor.
C20_NoImageFailsThePass ==
    [][ (pc = "pass" /\ PassMoved) =>
          IF Candidates(config) \cap files = {}
          THEN /\ err' = "no valid image found"
               /\ pc' # "pass"
               /\ monitors # {} /\ monitors' = monitors
               /\ picks' = picks
               /\ cache' = cache
               /\ cache_file' = cache_file
               /\ \A m \in DOMAIN picks :
                     /\ cache'.last_images[m] = picks[m].image
                     /\ cache_file' = Holding(cache')
          ELSE /\ err' = ""
               /\ Cardinality(DOMAIN picks') = Cardinality(DOMAIN picks) + 1 ]_vars

\* C20 witness: a pass has failed at its second monitor; the first monitor's
\* entry is in the cache and in the cache file.
C20_Witness ==
    /\ err = "no valid image found"
    /\ pc = "idle"
    /\ Cardinality(DOMAIN picks) = 1
    /\ Cardinality(monitors) = 1
    /\ DOMAIN cache.last_images = DOMAIN picks
    /\ cache_file = Holding(cache)

----------------------------------------------------------------------------
(* The file formats: Serialize/Deserialize of Config and Cache             *)
(* (config.rs:30-46, 64-74, 281-339, 364-449).  A JSON text is modelled by  *)
(* a record of its parts; the text of a time is the format that wrote it    *)
(* with the numbers it shows.                                               *)

HourTicks == DayTicks \div 24

\* NaiveTime::hour / minute / second of a time of day; both leap instants
\* are 23:59:59 with a fraction of a second or more.
hour(t) == IF t >= DayTicks THEN 23 ELSE t \div HourTicks
minute(t) == IF t >= DayTicks THEN 59 ELSE (t % HourTicks) * 5
second(t) == IF t >= DayTicks THEN 59 ELSE 0

\* The text of a time: "%H", "%H:%M" or "%H:%M:%S" with its numbers.
TimeText(fmt, h, m, s) == [fmt |-> fmt, h |-> h, m |-> m, s |-> s]

\* ValidTime::to_s (config.rs:364-372).  %S prints a leap instant as 60.
to_s(t) ==
    IF second(t) # 0
    THEN TimeText("%H:%M:%S", hour(t), minute(t),
                  second(t) + (IF t >= DayTicks THEN 1 ELSE 0))
    ELSE IF minute(t) # 0 THEN TimeText("%H:%M", hour(t), minute(t), 0)
    ELSE TimeText("%H", hour(t), 0, 0)

Parsed(t) == [ok |-> TRUE, t |-> t]
NotParsed == [ok |-> FALSE, t |-> MIN]

\* from_s (config.rs:409-431): %H:%M:%S, then %H:%M, then a number of hours,
\* of which 24 is ValidTime::MAX.  Second 60 parses to the leap instant of
\* 1.0 s.  The texts of the model name ticks or 23:59:60.
from_s(s) ==
    IF s.fmt = "%H:%M:%S" /\ s.h <= 23 /\ s.m <= 59 /\ s.s <= 60
    THEN (IF s.s = 60 THEN Parsed(LEAP)
          ELSE Parsed(s.h * HourTicks + s.m \div 5))
    ELSE IF s.fmt = "%H:%M" /\ s.h <= 23 /\ s.m <= 59
    THEN Parsed(s.h * HourTicks + s.m \div 5)
    ELSE IF s.fmt = "%H" /\ s.h = 24 THEN Parsed(MAX)
    ELSE IF s.fmt = "%H" /\ s.h <= 23 THEN Parsed(s.h * HourTicks)
    ELSE NotParsed

\* The text of a window: "*", "<time>" or "<time>-<time>".
Star == [kind |-> "*", from |-> TimeText("%H", 0, 0, 0), to |-> TimeText("%H", 0, 0, 0)]
Single(s) == [kind |-> "single", from |-> s, to |-> s]
Range(s, e) == [kind |-> "range", from |-> s, to |-> e]

\* Display and Serialize for ValidTime (config.rs:386-400): "{start}-{end}".
serialize_time(w) == Range(to_s(w.start), to_s(w.end))

\* v + chrono::Duration::hours(1) (config.rs:444) of a tick v: NaiveTime
\* addition wraps around midnight.
plus_hour(v) == (v + HourTicks) % DayTicks

\* Deserialize for ValidTime (config.rs:402-449): "*" is ALL; a text with '-'
\* is split into start and end; any other text is a time v and gives the
\* window from v to v + 1 h.  Start and end are not compared.
deserialize_time(s) ==
    IF s.kind = "*" THEN [ok |-> TRUE, w |-> ALL]
    ELSE IF s.kind = "range"
    THEN [ok |-> from_s(s.from).ok /\ from_s(s.to).ok,
          w |-> [start |-> from_s(s.from).t, end |-> from_s(s.to).t]]
    ELSE [ok |-> from_s(s.from).ok,
          w |-> [start |-> from_s(s.from).t, end |-> plus_hour(from_s(s.from).t)]]

\* ser_duration / deser_duration (config.rs:281-297): humantime writes a
\* duration as its days, hours and minutes and reads it as their sum.
ser_duration(d) ==
    [days |-> d \div DayTicks, h |-> (d % DayTicks) \div HourTicks,
     m |-> (d % HourTicks) * 5]
deser_duration(s) == s.days * DayTicks + s.h * HourTicks + s.m \div 5

\* ser_timestamp / deser_timestamp (config.rs:299-315): humantime writes an
\* instant as its date and time of day (RFC 3339) and reads it back.
ser_timestamp(t) ==
    [date |-> t \div DayTicks, h |-> (t % DayTicks) \div HourTicks,
     m |-> (t % HourTicks) * 5]
deser_timestamp(s) == s.date * DayTicks + s.h * HourTicks + s.m \div 5

\* Serialize for Monitors (config.rs:14-20, untagged): All is null, Some is
\* the list; Deserialize takes the first variant that fits.
ser_monitors(m) == [null |-> m.all, array |-> m.list]
deser_monitors(s) == IF s.null THEN MonitorsAll ELSE MonitorsSome(s.array)

\* The windows of one image in a text: one window, or a list of them.
One(s) == [one |-> TRUE, list |-> <<s>>]
Many(list) == [one |-> FALSE, list |-> list]

\* deser_images (config.rs:317-339): OneOrMany, one window becomes vec![one].
deser_images(s) ==
    [ok |-> \A p \in DOMAIN s : \A i \in DOMAIN s[p].list :
                deserialize_time(s[p].list[i]).ok,
     map |-> [p \in DOMAIN s |->
                [i \in DOMAIN s[p].list |-> deserialize_time(s[p].list[i]).w]]]

\* serde_json::to_writer of a Config (config.rs:190, fields at 30-46).
ser_config(c) ==
    [check_interval |-> ser_duration(c.check_interval),
     update_interval |-> ser_duration(c.update_interval),
     transitions |-> c.transitions,
     images |-> [p \in DOMAIN c.images |->
                   Many([i \in DOMAIN c.images[p] |->
                           serialize_time(c.images[p][i])])],
     image_dir |-> c.image_dir,
     fps |-> c.fps,
     monitors |-> ser_monitors(c.monitors)]

\* serde_json::from_reader of a Config (config.rs:181).
deser_config(s) ==
    [ok |-> deser_images(s.images).ok,
     val |-> [check_interval |-> deser_duration(s.check_interval),
              update_interval |-> deser_duration(s.update_interval),
              transitions |-> s.transitions,
              images |-> deser_images(s.images).map,
              image_dir |-> s.image_dir,
              fps |-> s.fps,
              monitors |-> deser_monitors(s.monitors)]]

\* serde_json::to_writer of a Cache (config.rs:275, fields at 64-74).
ser_cache(c) ==
    [version |-> c.version,
     last_update |-> ser_timestamp(c.last_update),
     last_transitions |-> c.last_transitions,
     last_images |-> c.last_images]

\* serde_json::from_reader of a Cache (config.rs:159).
deser_cache(s) ==
    [version |-> s.version,
     last_update |-> deser_timestamp(s.last_update),
     last_transitions |-> s.last_transitions,
     last_images |-> s.last_images]

\* A file with a text in it.
Text(s) == [kind |-> "text", val |-> s]

\* The times of day of the model's windows: 0, 9, 10:30, 17, 22, 23, 23:55
\* and the two leap instants.
CodecTimes == {MIN, 108, 126, 204, 264, 276, 287, LEAP, MAX}

\* The windows a Config may hold: Deserialize accepts any start and end.
CodecWindows == { [start |-> a, end |-> b] : a, b \in CodecTimes }

\* The Configs of the model: ConfigAB with any one window for a.png, and
\* ConfigAB with other intervals, selector and windows per image.
CodecConfigs ==
    { [ConfigAB EXCEPT !.images = [p \in {"a.png"} |-> <<w>>]] :
        w \in CodecWindows }
    \cup { [ConfigAB EXCEPT !.check_interval = d[1], !.update_interval = d[2],
                            !.monitors = m] :
             d \in {<<1, 12>>, <<13, 300>>, <<0, 288>>},
             m \in {MonitorsAll, MonitorsSome(<<"DP-1">>), MonitorsSome(<<>>)} }
    \cup { DefaultConfig, ConfigA,
           [ConfigA EXCEPT !.images = [p \in {"a.png"} |-> <<>>]],
           [ConfigA EXCEPT !.images = [p \in {"a.png"} |->
                                         <<[start |-> 0, end |-> 108], ALL>>]] }

\* The Caches of the model.
CodecCaches ==
    { DefaultCache }
    \cup { CacheOf(v, t, im) : v \in {CACHE_VERSION, CACHE_VERSION + 1},
                               t \in {120, 301, 1000}, im \in CacheMaps }

\* The window texts a config.json is written with by hand.
CodecWindowTexts ==
    { Star, Range(TimeText("%H", 0, 0, 0), TimeText("%H", 24, 0, 0)),
      Range(TimeText("%H:%M", 9, 0, 0), TimeText("%H:%M:%S", 17, 0, 0)),
      Range(TimeText("%H", 9, 0, 0), TimeText("%H", 25, 0, 0)),
      Single(TimeText("%H", 60, 0, 0)) }
    \cup { Single(TimeText("%H", h, 0, 0)) : h \in {0, 9, 22, 23} }
    \cup { Single(TimeText("%H:%M", h, 30, 0)) : h \in {10, 22, 23} }
    \cup { Single(TimeText("%H:%M:%S", 23, 0, 0)) }

\* config.json as written by hand: ConfigAB with one window text for a.png,
\* alone or in a list.
CodecConfigTexts ==
    { [ser_config(ConfigAB) EXCEPT !.images = [p \in {"a.png"} |-> One(w)]] :
        w \in CodecWindowTexts }
    \cup { [ser_config(ConfigAB) EXCEPT
              !.images = [p \in {"a.png"} |-> Many(<<w, Star>>)]] :
             w \in {Single(TimeText("%H", 23, 0, 0)), Star} }

codec_vars == <<files, connected_monitors, clock, pass_vars, daemon_vars,
                last_loaded_cache_hash, last_loaded_config_hash, note, arg>>

\* The values the program comes to hold: a Config or a Cache of the model.
CodecValues ==
    (CodecConfigs \X {DefaultCache}) \cup ({DefaultConfig} \X CodecCaches)

\* The program comes to hold a Config and a Cache; config.json is not there.
Hold(c, k) ==
    /\ pc = "start"
    /\ config_file.kind = "absent"
    /\ config' = c
    /\ cache' = k
    /\ pc' = "held"
    /\ op' = "hold"
    /\ UNCHANGED <<codec_vars, disk_vars, err, before, disk0>>

\* serde_json::to_writer(file, &self.config) (config.rs:190).
WriteConfig ==
    /\ pc = "held"
    /\ config_file' = Text(ser_config(config))
    /\ op' = "write_config"
    /\ before' = [before EXCEPT !.config = config]
    /\ disk0' = <<cache_file, config_file>>
    /\ err' = ""
    /\ UNCHANGED <<codec_vars, state_vars, cache_file, pc>>

\* serde_json::from_reader of config.json (config.rs:181): the text the
\* program wrote last, or one written by hand.
ReadConfig ==
    /\ pc \in {"start", "held"}
    /\ config_file.kind = "text"
    /\ LET r == deser_config(config_file.val) IN
         /\ config' = IF r.ok THEN r.val ELSE config
         /\ err' = IF r.ok THEN "" ELSE "while parsing config file"
    /\ op' = IF op = "write_config" THEN "reread_config" ELSE "read_config"
    /\ before' = IF op = "write_config" THEN before
                 ELSE [before EXCEPT !.config = config]
    /\ disk0' = <<cache_file, config_file>>
    /\ pc' = "held"
    /\ UNCHANGED <<codec_vars, cache, disk_vars>>

\* serde_json::to_writer(file, &self.cache) (config.rs:275).
WriteCache ==
    /\ pc = "held"
    /\ cache_file' = Text(ser_cache(cache))
    /\ op' = "write_cache"
    /\ before' = [before EXCEPT !.cache = cache]
    /\ disk0' = <<cache_file, config_file>>
    /\ err' = ""
    /\ UNCHANGED <<codec_vars, state_vars, config_file, pc>>

\* serde_json::from_reader of cache.json (config.rs:159).
ReadCache ==
    /\ pc = "held"
    /\ cache_file.kind = "text"
    /\ cache' = deser_cache(cache_file.val)
    /\ op' = IF op = "write_cache" THEN "reread_cache" ELSE "read_cache"
    /\ before' = IF op = "write_cache" THEN before
                 ELSE [before EXCEPT !.cache = cache]
    /\ disk0' = <<cache_file, config_file>>
    /\ err' = ""
    /\ UNCHANGED <<codec_vars, config, disk_vars, pc>>

InitCodec ==
    InitWith({Absent(DefaultCache)},
             {Absent(DefaultConfig)} \cup { Text(s) : s \in CodecConfigTexts },
             {{}}, {{}}, {0})

NextCodec ==
    \/ \E v \in CodecValues : Hold(v[1], v[2])
    \/ WriteConfig
    \/ ReadConfig
    \/ WriteCache
    \/ ReadCache

SpecCodec == InitCodec /\ [][NextCodec]_vars

----------------------------------------------------------------------------
(* Properties of the file formats (SpecCodec) *)

\* C21: a Config or Cache that is written and then read back is the value
\* that was written, for every value the program can hold.
C21_RoundTripYieldsEqualValue ==
    /\ op = "reread_config" => err = "" /\ config = before.config
    /\ op = "reread_cache" => cache = before.cache

\* The window texts of config.json that are a bare single time of hour 0
\* to 23, with the time T they name: <<image, index, T>>.
SingleTimes ==
    { x \in (DOMAIN config_file.val.images) \X {1, 2} \X (0..(DayTicks - 1)) :
        /\ x[2] \in DOMAIN config_file.val.images[x[1]].list
        /\ config_file.val.images[x[1]].list[x[2]].kind = "single"
        /\ from_s(config_file.val.images[x[1]].list[x[2]].from).ok
        /\ from_s(config_file.val.images[x[1]].list[x[2]].from).t = x[3] }

\* C24: the window read from a bare single time T of hour 0 to 23 matches a
\* time of day t exactly when T <= t <= T + 1 h.
C24_SingleTimeMatchesItsHour ==
    (op = "read_config" /\ err = "") =>
        \A x \in SingleTimes : \A t \in 0..(DayTicks - 1) :
            matches(config.images[x[1]][x[2]], t)
                <=> (x[3] <= t /\ t <= x[3] + HourTicks)

----------------------------------------------------------------------------
(* The handlers of Select and Reload (main.rs:233-250) called one by one,   *)
(* while the two files are edited from outside between the calls.           *)

\* What the files are edited to between two calls: a cache of the right and
\* one of another version, and a config for DP-1 only.
EventCacheFiles ==
    { Holding(CacheOf(v, 240, [m \in MonitorNames |-> ImageB])) :
        v \in {CACHE_VERSION, CACHE_VERSION + 1} }

EventConfigFiles == {Holding(ConfigDP)}

\* main.rs:234-240: the handler of IpcEvent::Reload, State::force_reload.
ApiReloadEvent ==
    /\ pc = "idle"
    /\ \E cf \in EventCacheFiles \cup {cache_file},
          gf \in EventConfigFiles \cup {config_file} :
        /\ Install(force_reload(Snapshot(cf, gf)))
        /\ Record("force_reload", cf, gf)
        /\ arg' = NoArg
    /\ UNCHANGED <<pc, env_vars, pass_vars, daemon_vars>>

InitEvents ==
    InitWith({Absent(DefaultCache)}, {Holding(ConfigAB)},
             {{ImageA, ImageB}}, {MonitorNames}, {StartClock})

NextEvents ==
    \/ LoadState
    \/ \E keep_old \in BOOLEAN : ApiSelect("/pics", keep_old)
    \/ PassStep
    \/ ApiReloadEvent

SpecEvents == InitEvents /\ [][NextEvents]_vars

----------------------------------------------------------------------------
(* Properties of the Reload handler (SpecEvents) *)

\* C22: a forced reload that finds both files readable replaces the
\* in-memory Config by the Config of the file and records its fingerprint,
\* whatever the fingerprints recorded before; the cache of the file is merged
\* entry by entry under the in-memory selector when its version is
\* CACHE_VERSION and is left out otherwise.
C22_ForcedReloadReplacesConfig ==
    (op = "force_reload" /\ disk0[1].kind = "ok" /\ disk0[2].kind = "ok") =>
        /\ err = ""
        /\ config = disk0[2].val
        /\ last_loaded_config_hash = hash_config(disk0[2].val)
        /\ IF disk0[1].val.version = CACHE_VERSION
           THEN /\ cache.last_images =
                     merge(before.cache.last_images, disk0[1].val.last_images,
                           before.config.monitors)
                /\ cache.last_transitions =
                     merge(before.cache.last_transitions,
                           disk0[1].val.last_transitions, before.config.monitors)
                /\ cache.last_update = disk0[1].val.last_update
                /\ last_loaded_cache_hash = hash_cache(disk0[1].val)
           ELSE /\ cache = before.cache
                /\ last_loaded_cache_hash = before.hc

\* A forced reload found both fingerprints as recorded while the in-memory
\* image map was the one a Select had installed, and put the file's image map
\* in its place.
C22_Witness ==
    /\ op = "force_reload"
    /\ disk0[1].kind = "ok" /\ disk0[2].kind = "ok"
    /\ before.hf = hash_config(disk0[2].val)
    /\ before.hc = hash_cache(disk0[1].val)
    /\ before.config.images = [p \in {ImageA, ImageB} |-> <<ALL>>]
    /\ before.config.images # disk0[2].val.images
    /\ config.images = disk0[2].val.images

----------------------------------------------------------------------------
(* The daemon loop left alone (main.rs:198-271): no client sends an event   *)
(* and nobody else touches the two files.                                   *)

\* A check_interval whose wait does not fit into u64 nanoseconds.
TooLong == MaxSleepTicks + 1000

\* ConfigAB with other intervals: <<check_interval, update_interval>>.
CycleIntervals == { <<1, 2>>, <<2, 3>>, <<3, 2>>, <<5, 12>>, <<TooLong, 2>> }
CycleConfigs ==
    { [ConfigAB EXCEPT !.check_interval = d[1], !.update_interval = d[2]] :
        d \in CycleIntervals }

\* The loop is watched for MaxCycleTicks ticks from 17:00 or 17:05 on.
MaxCycleTicks == 6
CycleTick ==
    /\ pc = "await"
    /\ clock < StartClock + MaxCycleTicks
    /\ Tick({clock + 1})

InitCycle ==
    InitWith({Absent(DefaultCache),
              Holding(CacheOf(CACHE_VERSION, StartClock, [m \in {"DP-1"} |-> ImageB]))},
             { Holding(c) : c \in CycleConfigs },
             {{ImageA, ImageB}}, {MonitorNames, {"HDMI-1"}},
             {StartClock, StartClock + 1})

NextCycle ==
    \/ Load("wake")
    \/ Wake
    \/ PassStep
    \/ Sleep
    \/ NoMessage
    \/ DaemonReload
    \/ CycleTick

SpecCycle == InitCycle /\ [][NextCycle]_vars

----------------------------------------------------------------------------
(* Properties of the daemon loop left alone (SpecCycle) *)

\* C23: while the loop waits, with check_interval > 0, the timeout of the
\* wait is check_interval - (now mod check_interval) for the time `now` read
\* at the start of the cycle: more than zero, at most check_interval, and
\* now + timeout is a multiple of check_interval.
C23_WaitsToNextMultiple ==
    (pc = "await" /\ config.check_interval > 0) =>
        LET now == current_time
            timeout == deadline - now
        IN /\ timeout = config.check_interval - (now % config.check_interval)
           /\ timeout > 0
           /\ timeout <= config.check_interval
           /\ (now + timeout) % config.check_interval = 0

\* The loop waits from a time that is no multiple of a check_interval of
\* more than one tick, for less than the whole interval.
C23_Witness ==
    /\ pc = "await"
    /\ config.check_interval > 1
    /\ current_time % config.check_interval # 0
    /\ deadline - current_time < config.check_interval

\* The update_interval bucket of an instant (main.rs:221).
bucket(t) == t \div config.update_interval

\* C28: a cycle that starts in the update_interval bucket of the last_update
\* a completed pass has written runs no scheduled pass, and the reload at the
\* end of a cycle does not move last_update to an earlier bucket.
C28_OnePassPerBucket ==
    [][/\ (pc = "wake" /\ picks # EmptyMap /\ cycle'.scheduled = 1) =>
              \A m \in DOMAIN picks : bucket(picks[m].at) # bucket(clock)
       /\ (pc = "reload" /\ pc' = "wake") =>
              bucket(cache'.last_update) >= bucket(cache.last_update)]_vars

\* A later cycle began in the bucket of the pass before it and ran no pass.
C28_Witness ==
    /\ pc = "sleep"
    /\ cycle.scheduled = 0
    /\ picks # EmptyMap
    /\ \A m \in DOMAIN picks :
          /\ picks[m].at < current_time
          /\ bucket(picks[m].at) = bucket(current_time)
          /\ cache.last_update = picks[m].at

----------------------------------------------------------------------------
(* Properties of the presenter's exit status (SpecPass) *)

\* C25: the turn of the loop in which the presenter exits non-zero for a
\* monitor raises no error, writes the monitor's cache entry and saves the
\* cache, and goes on with the remaining monitors; a pass with such a turn
\* that ends without error has processed every monitor it was called for.
C25_NonZeroExitDoesNotAbort ==
    [][/\ \A m \in MonitorNames :
            (m \notin DOMAIN picks /\ m \in DOMAIN picks' /\ picks'[m].status = 1) =>
                /\ err' = ""
                /\ cache'.last_images[m] = picks'[m].image
                /\ cache'.last_transitions[m] = picks'[m].transition
                /\ cache'.last_update = clock
                /\ cache_file' = Holding(cache')
                /\ monitors' = monitors \ {m}
                /\ pc' = IF monitors' = {} THEN ret ELSE "pass"
       /\ (pc = "idle" /\ op = "update_wallpapers" /\ err = ""
             /\ \E m \in DOMAIN picks : picks[m].status = 1) =>
                DOMAIN picks = target_monitors(arg.monitors, connected_monitors)]_vars

\* A pass over two monitors is complete; the presenter exited non-zero for
\* the first monitor, whose entry is in the saved cache, and the second
\* monitor was processed after it.
C25_Witness ==
    /\ pc = "idle" /\ op = "update_wallpapers" /\ err = ""
    /\ \E m \in DOMAIN picks : \E m2 \in DOMAIN picks :
          /\ picks[m].status = 1 /\ picks[m].n = 1
          /\ picks[m2].n = 2
          /\ cache_file.kind = "ok"
          /\ cache_file.val.last_images[m] = picks[m].image

----------------------------------------------------------------------------
(* Properties of the initial load (SpecReload) *)

\* C26: after State::load has found a config file with the selector Some(S)
\* and a cache file, the in-memory cache holds no entry of a monitor
\* outside S.
C26_LoadFiltersBySelector ==
    (op = "load" /\ err = "" /\ disk0[1].kind = "ok" /\ disk0[2].kind = "ok"
       /\ ~disk0[2].val.monitors.all) =>
        \A m \in DOMAIN cache.last_images \cup DOMAIN cache.last_transitions :
            includes(disk0[2].val.monitors, m)

----------------------------------------------------------------------------
(* The life of a connection (ipc.rs:90-127, main.rs:273-278): clients send  *)
(* and leave, the daemon keeps running.                                     *)

\* main.rs:273-278: run_ipc returns after Client::send and the client
\* process ends: the Client is dropped, the writer thread shuts the stream
\* down (ipc.rs:164-165), the daemon's end of the stream is at end-of-file
\* once the lines written before have been read.
ClientClose(c) ==
    /\ conns[c].client = "ready"
    /\ conns[c].chan = <<>>
    /\ OnlyConn(c, [conns[c] EXCEPT !.client = "closed"])
    /\ UNCHANGED <<scheduler_vars, queue, sent, stamps, enqueued, listener,
                   socket_file, drops>>

\* ipc.rs:93-99: at end-of-file read_line returns Ok(0) ("at_eof"), and
\* `continue` takes the loop back to the next read_line ("running"), which
\* finds the stream as before.  The handler thread is live in both places.
HandlerEof(c) ==
    /\ listener = "listening"
    /\ conns[c].handler \in {"running", "at_eof"}
    /\ conns[c].stream = <<>>
    /\ conns[c].client = "closed"
    /\ OnlyConn(c, [conns[c] EXCEPT
            !.handler = IF @ = "running" THEN "at_eof" ELSE "running"])
    /\ UNCHANGED <<scheduler_vars, queue, sent, stamps, enqueued, listener,
                   socket_file, drops>>

\* The steps of the thread that runs `main` and `daemon`, which stays up.
ConnScheduler ==
    \/ Load("bind")
    \/ Bind
    \/ Wake
    \/ PassStep
    \/ Sleep
    \/ Receive
    \/ NoMessage
    \/ DaemonReload

\* The steps of the threads of the connection c, on both sides.
HandlerStep(c) == HandlerRead(c) \/ HandlerEof(c)
ClientThread(c) ==
    \/ \E event \in IpcEvents : ClientSend(c, event)
    \/ WriterStep(c)
    \/ ClientReturn(c)
    \/ ClientClose(c)

InitConn ==
    InitWith({Absent(DefaultCache)}, {Holding(ConfigAB)},
             {{ImageB}}, {{"HDMI-1"}}, {StartClock})

NextConn ==
    \/ ConnScheduler
    \/ \E c \in Conns : Accept(c)
    \/ \E c \in Conns : HandlerStep(c)
    \/ \E c \in Conns : ClientThread(c)

\* Every thread that can take a step gets its turn.
SpecConn ==
    /\ InitConn
    /\ [][NextConn]_vars
    /\ WF_vars(ConnScheduler)
    /\ \A c \in Conns : WF_vars(HandlerStep(c)) /\ WF_vars(ClientThread(c))

----------------------------------------------------------------------------
(* Properties of the life of a connection (SpecConn) *)

\* C27: once the client of an accepted connection has closed its end, the
\* connection's handler eventually stops.
C27_HandlerStopsAfterClose ==
    \A c \in Conns :
        (conns[c].client = "closed") ~> (conns[c].handler = "stopped")

====
